---- MODULE Spec2Model ----
(***************************************************************************)
(* Model of src/crud.routes.ts: an Express router with four async route    *)
(* handlers (create / read / update / delete) that forward each request to *)
(* a Firestore handle injected through crudRoutes(db).                     *)
(*                                                                         *)
(* A handler runs synchronously up to its `await`, is suspended while the  *)
(* database call is in flight, and is resumed (in a later event-loop task) *)
(* with the call's outcome.  The Firestore client itself is an external    *)
(* collaborator: its four primitives are modelled from the interface the   *)
(* specification gives for it (section 6) and the client's documented      *)
(* argument validation.                                                    *)
(***************************************************************************)
EXTENDS Naturals, Sequences, FiniteSets, TLC

VARIABLES router, store, minted, reqs, crashed

vars == <<router, store, minted, reqs, crashed>>

----------------------------------------------------------------------------
(* Bounds of the model and the input alphabets.                            *)

\* Requests served in one run (each goes through arrival, call and response).
MaxReqs == 2
\* Calls of crudRoutes, and requests served, in the runs that mount repeatedly.
MaxMounts == 2
MaxReqsDI == 1

Reqs == 1..MaxReqs
Handles == {"A", "B"}
Collections == {"users"}
\* The ids the client's auto-id generator can produce.
IdPool == {"id1", "id2"}
Names == {"John"}
Ages == {30, 31}

\* DocumentData: a mapping from string keys to JSON values.
EmptyData == [k \in {} |-> 0]
Data ==
  {EmptyData} \cup {[name |-> n] : n \in Names} \cup {[age |-> a] : a \in Ages}
    \cup {[name |-> n, age |-> a] : n \in Names, a \in Ages}

\* The data that request bodies carry.
CreateData == {[name |-> "John", age |-> 30], [age |-> 31]}
UpdateData == {[age |-> 31], [name |-> "John"]}

DocPaths == Collections \X IdPool

----------------------------------------------------------------------------
(* HTTP status codes and the static per-operation messages.                *)

StatusCreated == 201
StatusOk == 200
StatusNotFound == 404
StatusError == 500

Routes == {"create", "read", "update", "delete"}

ErrorMessage(op) ==
  CASE op = "create" -> "Error creating document"
    [] op = "read"   -> "Error reading document"
    [] op = "update" -> "Error updating document"
    [] op = "delete" -> "Error deleting document"

NoResp == [status |-> 0, kind |-> "none", text |-> "", id |-> "", data |-> EmptyData]

SendText(status, text) ==
  [status |-> status, kind |-> "text", text |-> text, id |-> "", data |-> EmptyData]

\* res.status(201).json({ id: docRef.id })
JsonId(status, id) ==
  [status |-> status, kind |-> "id", text |-> "", id |-> id, data |-> EmptyData]

\* res.status(200).json(doc.data())
JsonDoc(status, data) ==
  [status |-> status, kind |-> "doc", text |-> "", id |-> "", data |-> data]

\* Variant: the delete handler without its try/catch.
CaughtExceptDelete(op) == op \in Routes \ {"delete"}

\* Every handler body is wrapped in try { ... } catch (error) { ... }.
Caught(op) == op \in Routes

\* Variant: every catch block sends the create handler's message.
CatchResponseCopied(op) == SendText(StatusError, ErrorMessage("create"))

\* catch (error) { console.log(error); res.status(500).send('Error ... document'); }
CatchResponse(op) == SendText(StatusError, ErrorMessage(op))

----------------------------------------------------------------------------
(* Request bodies.  req.body is undefined when the request carries no      *)
(* parsed body; a field that is absent destructures to undefined.          *)

NoBody == [defined |-> FALSE, has |-> {}, collection |-> "", data |-> EmptyData]

\* A parsed body with the fields of `has`; an absent field holds a filler.
Body(has, c, d) ==
  [defined |-> TRUE, has |-> has,
   collection |-> IF "collection" \in has THEN c ELSE "",
   data |-> IF "data" \in has THEN d ELSE EmptyData]

CreateBodies ==
  {NoBody}
    \cup {Body({"collection"}, c, EmptyData) : c \in Collections}
    \cup {Body({"data"}, "", d) : d \in CreateData}
    \cup {Body({"collection", "data"}, c, d) : c \in Collections, d \in CreateData}

UpdateBodies ==
  {NoBody, Body({}, "", EmptyData)}
    \cup {Body({"data"}, "", d) : d \in UpdateData}

\* const { collection, data } = req.body  throws a TypeError on undefined.
DestructureThrows(body) == ~body.defined

----------------------------------------------------------------------------
(* The database client (external collaborator).                            *)

Absent == [exists |-> FALSE, data |-> EmptyData]
Present(d) == [exists |-> TRUE, data |-> d]

\* db.collection(path): the path must be a non-empty string.
ValidCollectionPath(body) == "collection" \in body.has

\* add(data): the data must be a plain object.
ValidDocumentData(body) == "data" \in body.has

\* update(data): the data must be a plain object with at least one field.
ValidUpdateMap(body) == "data" \in body.has /\ DOMAIN body.data # {}

\* update(data) on an existing document: the fields of data overwrite, the
\* other fields stay.
Merge(old, d) ==
  [k \in (DOMAIN old) \cup (DOMAIN d) |-> IF k \in DOMAIN d THEN d[k] ELSE old[k]]

----------------------------------------------------------------------------
(* Requests.  Besides the handler's own state (pc, the call's outcome and   *)
(* return value, the response) a request records, for the properties:      *)
(* injected, the handle of the latest crudRoutes call when it arrived;     *)
(* after, the requests already answered when it arrived; seen, the         *)
(* requested document as the database held it when the call was settled;   *)
(* nCalls and nResp, the client calls made and the responses sent.         *)

NewReq ==
  [pc |-> "new", op |-> "none", collection |-> "", id |-> "", body |-> NoBody,
   db |-> "", injected |-> "", call |-> "none", arg |-> EmptyData,
   retId |-> "", ret |-> Absent, seen |-> Absent, resp |-> NoResp, nCalls |-> 0, nResp |-> 0, escaped |-> FALSE, after |-> {}]

Init ==
  /\ router = <<>>
  /\ store = [h \in Handles |-> [p \in DocPaths |-> Absent]]
  /\ minted = [h \in Handles |-> {}]
  /\ reqs = [r \in Reqs |-> NewReq]
  /\ crashed = FALSE

\* crudRoutes(db): registers the four handlers, closed over db, on the
\* module-level router, and returns that router.
CrudRoutes(db) ==
  /\ ~crashed
  /\ Len(router) < 4 * MaxMounts
  /\ router' = router \o << [route |-> "create", db |-> db],
                            [route |-> "read", db |-> db],
                            [route |-> "update", db |-> db],
                            [route |-> "delete", db |-> db] >>
  /\ UNCHANGED <<store, minted, reqs, crashed>>

\* Express runs the first layer of the router that matches the route; the
\* handlers never call next(), so no later layer runs.
Dispatch(route) ==
  LET i == CHOOSE i \in 1..Len(router) :
             /\ router[i].route = route
             /\ \A j \in 1..(i - 1) : router[j].route # route
  IN router[i]

\* The handle given to the latest crudRoutes call.
LastInjected == router[Len(router)].db

\* The next request to arrive takes the first free slot.
Arrives(r) ==
  /\ ~crashed
  /\ Len(router) > 0
  /\ reqs[r].pc = "new"
  /\ \A q \in Reqs : q < r => reqs[q].pc # "new"

Responded == {q \in Reqs : reqs[q].pc = "done"}

Incoming(op, c, i, body) ==
  [NewReq EXCEPT !.op = op, !.collection = c, !.id = i, !.body = body,
                 !.db = Dispatch(op).db, !.injected = LastInjected,
                 !.after = Responded]

\* The handler sends a response and returns.
Respond(q, resp) == [q EXCEPT !.pc = "done", !.resp = resp, !.nResp = @ + 1]

\* An exception inside the try block: the catch block answers it.  An
\* exception no catch block covers rejects the handler's promise, which
\* nothing handles.
Catch(q) ==
  IF Caught(q.op)
  THEN Respond(q, CatchResponse(q.op))
  ELSE [q EXCEPT !.pc = "done", !.escaped = TRUE]

\* The try block throws before the await, after n calls on the client.
SyncThrow(q, n) ==
  Catch([q EXCEPT !.call = IF n = 0 THEN "none" ELSE "threw", !.nCalls = n])

\* The handler reaches its await with the client call issued on data `arg`.
Awaiting(q, arg) ==
  [q EXCEPT !.pc = "awaiting", !.call = "pending", !.arg = arg, !.nCalls = 1]

Step(r, q) ==
  /\ reqs' = [reqs EXCEPT ![r] = q]
  /\ crashed' = (crashed \/ q.escaped)

----------------------------------------------------------------------------
(* The four handlers, up to their await.                                   *)

\* Variant: the handler passes req.body, not its data field, to add.
PostCreateWholeBody(r, body) ==
  /\ Arrives(r)
  /\ LET q == Incoming("create", body.collection, "", body)
     IN Step(r, IF DestructureThrows(body) THEN SyncThrow(q, 0)
                ELSE IF ~ValidCollectionPath(body) \/ ~ValidDocumentData(body)
                THEN SyncThrow(q, 1)
                ELSE Awaiting(q, [collection |-> body.collection, data |-> body.data]))
  /\ UNCHANGED <<router, store, minted>>

\* Variant: the handler checks its input fields itself and answers 400.
PostCreateValidating(r, body) ==
  /\ Arrives(r)
  /\ LET q == Incoming("create", body.collection, "", body)
     IN Step(r, IF DestructureThrows(body) THEN SyncThrow(q, 0)
                ELSE IF ~ValidCollectionPath(body) \/ ~ValidDocumentData(body)
                THEN Respond(q, SendText(400, "Missing fields"))
                ELSE Awaiting(q, body.data))
  /\ UNCHANGED <<router, store, minted>>

\* router.post('/create'): up to  await db.collection(collection).add(data)
PostCreate(r, body) ==
  /\ Arrives(r)
  /\ LET q == Incoming("create", body.collection, "", body)
     IN Step(r, IF DestructureThrows(body) THEN SyncThrow(q, 0)
                ELSE IF ~ValidCollectionPath(body) \/ ~ValidDocumentData(body)
                THEN SyncThrow(q, 1)
                ELSE Awaiting(q, body.data))
  /\ UNCHANGED <<router, store, minted>>

\* Variant: the handler waits for the database synchronously, so it starts
\* only when no other call is in flight.
GetReadBlocking(r, c, i) ==
  /\ Arrives(r)
  /\ \A q \in Reqs : reqs[q].pc \notin {"awaiting", "settled"}
  /\ Step(r, Awaiting(Incoming("read", c, i, NoBody), EmptyData))
  /\ UNCHANGED <<router, store, minted>>

\* router.get('/read/:collection/:id'): up to  await ...doc(id).get()
GetRead(r, c, i) ==
  /\ Arrives(r)
  /\ Step(r, Awaiting(Incoming("read", c, i, NoBody), EmptyData))
  /\ UNCHANGED <<router, store, minted>>

\* Variant: the handler passes req.body, not its data field, to update.
PutUpdateWholeBody(r, c, i, body) ==
  /\ Arrives(r)
  /\ LET q == Incoming("update", c, i, body)
     IN Step(r, IF DestructureThrows(body) THEN SyncThrow(q, 0)
                ELSE IF ~ValidUpdateMap(body) THEN SyncThrow(q, 1)
                ELSE Awaiting(q, [data |-> body.data]))
  /\ UNCHANGED <<router, store, minted>>

\* router.put('/update/:collection/:id'): up to  await docRef.update(data)
PutUpdate(r, c, i, body) ==
  /\ Arrives(r)
  /\ LET q == Incoming("update", c, i, body)
     IN Step(r, IF DestructureThrows(body) THEN SyncThrow(q, 0)
                ELSE IF ~ValidUpdateMap(body) THEN SyncThrow(q, 1)
                ELSE Awaiting(q, body.data))
  /\ UNCHANGED <<router, store, minted>>

\* router.delete('/delete/:collection/:id'): up to  await ...doc(id).delete()
DeleteDoc(r, c, i) ==
  /\ Arrives(r)
  /\ Step(r, Awaiting(Incoming("delete", c, i, NoBody), EmptyData))
  /\ UNCHANGED <<router, store, minted>>

----------------------------------------------------------------------------
(* The database settles a call in flight.                                  *)

InFlight(r, op) ==
  /\ ~crashed
  /\ reqs[r].pc = "awaiting"
  /\ reqs[r].op = op

Settle(r, q) ==
  /\ reqs' = [reqs EXCEPT ![r] = [q EXCEPT !.pc = "settled"]]
  /\ UNCHANGED <<router, crashed>>

Path(q) == <<q.collection, q.id>>

\* collection(name).add(data) -> id : stores data under a fresh id.
DbAdd(r) ==
  /\ InFlight(r, "create")
  /\ LET q == reqs[r]
     IN \E i \in IdPool :
          /\ <<q.collection, i>> \notin minted[q.db]
          /\ store' = [store EXCEPT ![q.db][<<q.collection, i>>] = Present(q.arg)]
          /\ minted' = [minted EXCEPT ![q.db] = @ \cup {<<q.collection, i>>}]
          /\ Settle(r, [q EXCEPT !.call = "resolved", !.retId = i])

\* collection(name).doc(id).get() -> {exists, data()}
DbGet(r) ==
  /\ InFlight(r, "read")
  /\ LET q == reqs[r]
     IN Settle(r, [q EXCEPT !.call = "resolved", !.ret = store[q.db][Path(q)],
                            !.seen = store[q.db][Path(q)]])
  /\ UNCHANGED <<store, minted>>

\* collection(name).doc(id).update(data): merges into an existing document,
\* fails on a missing one.
DbUpdate(r) ==
  /\ InFlight(r, "update")
  /\ LET q == reqs[r]
         doc == store[q.db][Path(q)]
     IN IF doc.exists
        THEN /\ store' = [store EXCEPT ![q.db][Path(q)] =
                                        Present(Merge(doc.data, q.arg))]
             /\ Settle(r, [q EXCEPT !.call = "resolved", !.seen = doc])
        ELSE /\ store' = store
             /\ Settle(r, [q EXCEPT !.call = "rejected", !.seen = doc])
  /\ UNCHANGED minted

\* collection(name).doc(id).delete(): succeeds whether or not the document exists.
DbDelete(r) ==
  /\ InFlight(r, "delete")
  /\ LET q == reqs[r]
     IN /\ store' = [store EXCEPT ![q.db][Path(q)] = Absent]
        /\ Settle(r, [q EXCEPT !.call = "resolved", !.seen = store[q.db][Path(q)]])
  /\ UNCHANGED minted

\* Any call may fail (network, permission, quota): the promise rejects.
DbReject(r) ==
  /\ ~crashed
  /\ reqs[r].pc = "awaiting"
  /\ Settle(r, [reqs[r] EXCEPT !.call = "failed"])
  /\ UNCHANGED <<store, minted>>

----------------------------------------------------------------------------
(* The four handlers, resumed after their await.                           *)

Resumes(r, op) ==
  /\ ~crashed
  /\ reqs[r].pc = "settled"
  /\ reqs[r].op = op

Resolved(q) == q.call = "resolved"

\* res.status(201).json({ id: docRef.id })
CreateResponse(q) == JsonId(StatusCreated, q.retId)

\* Variant: no existence check; the handler always sends doc.data().
ReadResponseNoCheck(q) == JsonDoc(StatusOk, q.ret.data)

\* Variant: a missing document is thrown into the catch block.
ReadResponseThrows(q) ==
  IF ~q.ret.exists THEN CatchResponse("read") ELSE JsonDoc(StatusOk, q.ret.data)

\* if (!doc.exists) return 404; res.status(200).json(doc.data())
ReadResponse(q) ==
  IF ~q.ret.exists
  THEN SendText(StatusNotFound, "Document not found")
  ELSE JsonDoc(StatusOk, q.ret.data)

\* res.status(200).send('Document updated')
UpdateResponse(q) == SendText(StatusOk, "Document updated")

\* res.status(200).send('Document deleted')
DeleteResponse(q) == SendText(StatusOk, "Document deleted")

ResumeCreate(r) ==
  /\ Resumes(r, "create")
  /\ LET q == reqs[r]
     IN Step(r, IF Resolved(q) THEN Respond(q, CreateResponse(q)) ELSE Catch(q))
  /\ UNCHANGED <<router, store, minted>>

ResumeRead(r) ==
  /\ Resumes(r, "read")
  /\ LET q == reqs[r]
     IN Step(r, IF Resolved(q) THEN Respond(q, ReadResponse(q)) ELSE Catch(q))
  /\ UNCHANGED <<router, store, minted>>

\* Variant: the catch block of the update handler answers 200 as well.
ResumeUpdateSwallow(r) ==
  /\ Resumes(r, "update")
  /\ Step(r, Respond(reqs[r], UpdateResponse(reqs[r])))
  /\ UNCHANGED <<router, store, minted>>

ResumeUpdate(r) ==
  /\ Resumes(r, "update")
  /\ LET q == reqs[r]
     IN Step(r, IF Resolved(q) THEN Respond(q, UpdateResponse(q)) ELSE Catch(q))
  /\ UNCHANGED <<router, store, minted>>

ResumeDelete(r) ==
  /\ Resumes(r, "delete")
  /\ LET q == reqs[r]
     IN Step(r, IF Resolved(q) THEN Respond(q, DeleteResponse(q)) ELSE Catch(q))
  /\ UNCHANGED <<router, store, minted>>

----------------------------------------------------------------------------

\* The steps of request r.
Serve(r) ==
  \/ \E b \in CreateBodies : PostCreate(r, b)
  \/ \E c \in Collections, i \in IdPool : GetRead(r, c, i)
  \/ \E c \in Collections, i \in IdPool, b \in UpdateBodies : PutUpdate(r, c, i, b)
  \/ \E c \in Collections, i \in IdPool : DeleteDoc(r, c, i)
  \/ DbAdd(r) \/ DbGet(r) \/ DbUpdate(r) \/ DbDelete(r) \/ DbReject(r)
  \/ ResumeCreate(r) \/ ResumeRead(r) \/ ResumeUpdate(r) \/ ResumeDelete(r)

\* The application as deployed: crudRoutes(db) was called once at start-up
\* and the returned router serves the requests.
\* S is the set of documents the database of handle "A" already holds.
MountedOn(S) ==
  /\ router = << [route |-> "create", db |-> "A"], [route |-> "read", db |-> "A"],
                 [route |-> "update", db |-> "A"], [route |-> "delete", db |-> "A"] >>
  /\ store = [h \in Handles |-> [p \in DocPaths |->
                 IF h = "A" /\ p \in S
                 THEN Present([name |-> "John", age |-> 30]) ELSE Absent]]
  /\ minted = [h \in Handles |-> IF h = "A" THEN S ELSE {}]
  /\ reqs = [r \in Reqs |-> NewReq]
  /\ crashed = FALSE

\* The database outlives the process: it starts empty or already holds a document.
Mounted == \E S \in {{}, {<<"users", "id1">>}} : MountedOn(S)

Next == \E r \in Reqs : Serve(r)

Spec == Mounted /\ [][Next]_vars

\* crudRoutes called any number of times, before and between requests.
NextDI ==
  \/ \E h \in Handles : CrudRoutes(h)
  \/ \E r \in 1..MaxReqsDI : Serve(r)

SpecDI == Init /\ [][NextDI]_vars

\* The event loop runs the continuation of every settled promise.
Resume(r) == ResumeCreate(r) \/ ResumeRead(r) \/ ResumeUpdate(r) \/ ResumeDelete(r)

FairSpec == MountedOn({}) /\ [][Next]_vars /\ \A r \in Reqs : WF_vars(Resume(r))

----------------------------------------------------------------------------
(* Vocabulary of the properties.                                           *)

Done(r) == reqs[r].pc = "done"

\* Request r arrived after request q had been answered.
Later(r, q) == q \in reqs[r].after

IsDone(r, op) == Done(r) /\ reqs[r].op = op

\* Read request rr asks for document (c, i) of the database request q used.
ReadsDoc(rr, q, c, i) ==
  /\ IsDone(rr, "read")
  /\ reqs[rr].db = reqs[q].db
  /\ reqs[rr].collection = c
  /\ reqs[rr].id = i

\* No Update or Delete of (c, i), other than `first`, overlaps the span from
\* the response of `first` to the response of `last`.
NoOtherWrite(first, last, c, i) ==
  \A u \in Reqs \ {first} :
    ( /\ reqs[u].pc # "new"
      /\ reqs[u].op \in {"update", "delete"}
      /\ reqs[u].collection = c
      /\ reqs[u].id = i )
    => (u \in reqs[first].after \/ last \in reqs[u].after)

\* Create rc was answered after its add succeeded, and Read rr of the created
\* document was issued afterwards with no Update or Delete in between.
CreatedThenRead(rc, rr) ==
  /\ IsDone(rc, "create")
  /\ reqs[rc].call = "resolved"
  /\ ReadsDoc(rr, rc, reqs[rc].collection, reqs[rc].resp.id)
  /\ Later(rr, rc)
  /\ NoOtherWrite(rc, rr, reqs[rc].collection, reqs[rc].resp.id)

CreateAnswered(rc) ==
  (IsDone(rc, "create") /\ reqs[rc].call = "resolved")
    => /\ reqs[rc].resp.status = 201
       /\ reqs[rc].resp.kind = "id"
       /\ reqs[rc].resp.id # ""

ReadsBack(rr, data) ==
  /\ reqs[rr].resp.status = 200
  /\ reqs[rr].resp.kind = "doc"
  /\ reqs[rr].resp.data = data

ReadFails(rr) ==
  /\ reqs[rr].resp.status = 500
  /\ reqs[rr].resp.text = "Error reading document"

\* C1 as stated: a Create whose add succeeds answers 201 with a non-empty id,
\* and a Read of that (collection, id) issued afterwards, with no Update or
\* Delete of the document in between, answers 200 with the data given to Create.
C1_CreateThenRead_AsStated ==
  \A rc \in Reqs :
    /\ CreateAnswered(rc)
    /\ \A rr \in Reqs : CreatedThenRead(rc, rr) => ReadsBack(rr, reqs[rc].body.data)

\* C1 as amended: the Read answers 200 with the created data when its own get
\* resolves, and 500 when its get fails.
C1_CreateThenRead ==
  \A rc \in Reqs :
    /\ CreateAnswered(rc)
    /\ \A rr \in Reqs :
         CreatedThenRead(rc, rr) =>
           IF reqs[rr].call = "resolved"
           THEN ReadsBack(rr, reqs[rc].body.data)
           ELSE ReadFails(rr)

C1_Witness ==
  \E rc, rr \in Reqs :
    /\ CreatedThenRead(rc, rr)
    /\ reqs[rc].body.data = [name |-> "John", age |-> 30]
    /\ ReadsBack(rr, [name |-> "John", age |-> 30])

\* Delete rd of a document that existed was answered 200, and Read rr of the
\* same document arrived afterwards and was answered.
DeletedThenRead(rd, rr) ==
  /\ IsDone(rd, "delete")
  /\ reqs[rd].resp.status = 200
  /\ reqs[rd].seen.exists
  /\ ReadsDoc(rr, rd, reqs[rd].collection, reqs[rd].id)
  /\ Later(rr, rd)

ReadNotFound(rr) ==
  /\ reqs[rr].resp.status = 404
  /\ reqs[rr].resp.text = "Document not found"

UpdatedThenRead(ru, rr) ==
  /\ IsDone(ru, "update")
  /\ reqs[ru].resp.status = 200
  /\ ReadsDoc(rr, ru, reqs[ru].collection, reqs[ru].id)
  /\ Later(rr, ru)
  /\ NoOtherWrite(ru, rr, reqs[ru].collection, reqs[ru].id)

\* got is prev overwritten by d: the keys of d hold d's values, the other
\* keys of prev hold prev's values, and there are no further keys.
IsMerge(got, prev, d) ==
  /\ DOMAIN got = (DOMAIN prev) \cup (DOMAIN d)
  /\ \A k \in DOMAIN d : got[k] = d[k]
  /\ \A k \in (DOMAIN prev) \ (DOMAIN d) : got[k] = prev[k]

ReadsMerged(ru, rr) ==
  /\ reqs[rr].resp.status = 200
  /\ reqs[rr].resp.kind = "doc"
  /\ IsMerge(reqs[rr].resp.data, reqs[ru].seen.data, reqs[ru].body.data)

StaticMessage(op) ==
  CASE op = "create" -> "Error creating document"
    [] op = "read"   -> "Error reading document"
    [] op = "update" -> "Error updating document"
    [] op = "delete" -> "Error deleting document"

\* The client call of request r threw or rejected.
CallFailed(r) == reqs[r].call \in {"threw", "rejected", "failed"}

\* Slot r is the one the next arriving request takes.
FirstFree(r) == reqs[r].pc = "new" /\ \A q \in Reqs : q < r => reqs[q].pc # "new"

\* A request of each of the four routes can arrive and start its handler.
CanArrive(r) ==
  /\ ENABLED (\E b \in CreateBodies : PostCreate(r, b))
  /\ ENABLED (\E c \in Collections, i \in IdPool : GetRead(r, c, i))
  /\ ENABLED (\E c \in Collections, i \in IdPool, b \in UpdateBodies : PutUpdate(r, c, i, b))
  /\ ENABLED (\E c \in Collections, i \in IdPool : DeleteDoc(r, c, i))

\* C4: for each of the four operations, when the database client call throws
\* or rejects the handler answers 500 with that operation's static message,
\* no exception escapes the handler, and the server goes on serving requests.
C4_ErrorsAnswered ==
  /\ ~crashed
  /\ \A r \in Reqs :
       /\ ~reqs[r].escaped
       /\ (Done(r) /\ CallFailed(r)) =>
            /\ reqs[r].resp.status = 500
            /\ reqs[r].resp.kind = "text"
            /\ reqs[r].resp.text = StaticMessage(reqs[r].op)
            /\ reqs[r].nResp = 1
       /\ FirstFree(r) => CanArrive(r)

C4_Witness ==
  \E r1, r2 \in Reqs :
    /\ IsDone(r1, "delete") /\ reqs[r1].call = "failed"
    /\ reqs[r1].resp.text = "Error deleting document"
    /\ Done(r2) /\ Later(r2, r1) /\ reqs[r2].resp.status = 201

\* C5: a Read whose get resolves answers 404 exactly when the document does
\* not exist and 200 with the document's data exactly when it exists; a Read
\* of a document that was never created answers 404, not 500.
C5_ReadStatus ==
  \A r \in Reqs :
    (IsDone(r, "read") /\ reqs[r].call = "resolved") =>
      /\ reqs[r].resp.status \in {200, 404}
      /\ reqs[r].resp.status = 404 <=> ~reqs[r].seen.exists
      /\ reqs[r].seen.exists => ReadsBack(r, reqs[r].seen.data)
      /\ ~reqs[r].seen.exists => ReadNotFound(r)
      /\ <<reqs[r].collection, reqs[r].id>> \notin minted[reqs[r].db] => ReadNotFound(r)

C5_Witness ==
  \E r1, r2 \in Reqs :
    /\ IsDone(r1, "read") /\ reqs[r1].call = "resolved" /\ ReadNotFound(r1)
    /\ <<reqs[r1].collection, reqs[r1].id>> \notin minted[reqs[r1].db]
    /\ IsDone(r2, "read") /\ reqs[r2].call = "resolved" /\ reqs[r2].resp.status = 200

\* C6 as stated: every handled request, on every path, makes exactly one call
\* on the database client and sends exactly one response.
C6_OneCallOneResponse_AsStated ==
  \A r \in Reqs :
    /\ Done(r) => (reqs[r].nCalls = 1 /\ reqs[r].nResp = 1)
    /\ ~Done(r) => (reqs[r].nCalls <= 1 /\ reqs[r].nResp = 0)

\* C6 as amended: every handled request sends exactly one response and makes
\* at most one call on the database client: exactly one, except that a Create
\* or Update whose body is undefined makes none.
C6_OneCallOneResponse ==
  \A r \in Reqs :
    /\ Done(r) =>
         /\ reqs[r].nResp = 1
         /\ reqs[r].nCalls = IF reqs[r].op \in {"create", "update"} /\ ~reqs[r].body.defined
                             THEN 0 ELSE 1
    /\ ~Done(r) => (reqs[r].nCalls <= 1 /\ reqs[r].nResp = 0)

C6_Witness ==
  \E r1, r2 \in Reqs :
    /\ Done(r1) /\ reqs[r1].nCalls = 0 /\ reqs[r1].nResp = 1 /\ reqs[r1].resp.status = 500
    /\ Done(r2) /\ reqs[r2].nCalls = 1 /\ reqs[r2].nResp = 1 /\ reqs[r2].call = "failed"

\* The request has no body, or lacks an input field its operation reads.
MissingFields(q) ==
  \/ q.op = "create" /\ (~q.body.defined \/ {"collection", "data"} \ q.body.has # {})
  \/ q.op = "update" /\ (~q.body.defined \/ "data" \notin q.body.has)

\* C7: a Create or Update with missing input fields is answered 500, and the
\* stored documents are the same after the request as before it.
C7_MissingFields ==
  [][\A r \in Reqs :
       (reqs[r].pc = "new" /\ reqs'[r].pc # "new" /\ MissingFields(reqs'[r])) =>
         /\ reqs'[r].pc = "done"
         /\ reqs'[r].resp.status = 500
         /\ reqs'[r].resp.text = StaticMessage(reqs'[r].op)
         /\ reqs'[r].nResp = 1
         /\ store' = store
         /\ minted' = minted]_vars

C7_Witness ==
  \E r1, r2 \in Reqs :
    /\ IsDone(r1, "create") /\ MissingFields(reqs[r1]) /\ reqs[r1].resp.status = 500
    /\ IsDone(r2, "update") /\ MissingFields(reqs[r2]) /\ reqs[r2].resp.status = 500
    /\ reqs[r1].body.defined /\ reqs[r2].body.defined

\* C8: a request served through the router that crudRoutes returned operates
\* on the handle given to that (the latest) crudRoutes call.
C8_UsesInjectedHandle ==
  \A r \in Reqs : reqs[r].pc # "new" => reqs[r].db = reqs[r].injected

\* The steps the database can take on the call of request r.
DbStep(r) == DbAdd(r) \/ DbGet(r) \/ DbUpdate(r) \/ DbDelete(r) \/ DbReject(r)

\* While r1 is suspended on its call, every other request can take its next step.
NoRequestBlocks ==
  \A r1, r2 \in Reqs :
    (r1 # r2 /\ reqs[r1].pc = "awaiting") =>
      /\ FirstFree(r2) => CanArrive(r2)
      /\ reqs[r2].pc = "awaiting" => ENABLED DbStep(r2)
      /\ reqs[r2].pc = "settled" => ENABLED Resume(r2)

\* C9: a request waiting for its database call does not block other requests
\* (a later request can issue its call and be answered first), and it is
\* itself answered once its call has settled: it never stays settled and
\* unanswered for ever (the only step out of "settled" sends the response).
C9_NonBlocking ==
  /\ []NoRequestBlocks
  /\ \A r \in Reqs : []<>(reqs[r].pc # "settled")

C9_Witness ==
  \E r1, r2 \in Reqs :
    /\ r1 < r2
    /\ reqs[r1].pc = "awaiting"
    /\ Done(r2) /\ reqs[r2].call = "resolved" /\ reqs[r2].resp.status = 200

\* Update u and Delete d of one document were in flight together.
Racing(u, d) ==
  /\ reqs[u].op = "update" /\ reqs[d].op = "delete"
  /\ reqs[u].db = reqs[d].db
  /\ Path(reqs[u]) = Path(reqs[d])
  /\ reqs[u].nCalls = 1 /\ reqs[d].nCalls = 1
  /\ ~Later(u, d) /\ ~Later(d, u)

\* C10: the handlers impose no order on an Update and a Delete of one document
\* in flight together: the database can apply either first, each response
\* reports the outcome of the request's own call, and the document ends as the
\* order of application leaves it.
C10_NoOrdering ==
  /\ \A u, d \in Reqs :
       (Racing(u, d) /\ reqs[u].pc = "awaiting" /\ reqs[d].pc = "awaiting") =>
         (ENABLED DbUpdate(u) /\ ENABLED DbDelete(d))
  /\ \A r \in Reqs :
       (Done(r) /\ reqs[r].op \in {"update", "delete"} /\ reqs[r].nCalls = 1) =>
         /\ reqs[r].resp.status = IF reqs[r].call = "resolved" THEN 200 ELSE 500
         /\ reqs[r].op = "update" =>
              (reqs[r].call = "resolved" <=> (reqs[r].seen.exists /\ reqs[r].call # "failed"))
         /\ reqs[r].op = "delete" => (reqs[r].call = "resolved" <=> reqs[r].call # "failed")
  /\ \A u, d \in Reqs :
       ( /\ Racing(u, d) /\ Done(u) /\ Done(d)
         /\ reqs[u].call # "failed" /\ reqs[d].call # "failed"
         /\ reqs[d].seen.exists ) =>
         /\ ~store[reqs[d].db][Path(reqs[d])].exists
         /\ reqs[d].resp.status = 200
         /\ reqs[u].resp.status = IF reqs[u].seen.exists THEN 200 ELSE 500

\* The Update arrived first and the database applied the Delete first.
C10_Witness ==
  \E u, d \in Reqs :
    /\ Racing(u, d) /\ Done(u) /\ Done(d) /\ u < d
    /\ reqs[d].seen.exists /\ reqs[d].call = "resolved"
    /\ ~reqs[u].seen.exists /\ reqs[u].call = "rejected"
    /\ reqs[u].resp.status = 500 /\ reqs[d].resp.status = 200

====
